---- MODULE Spec2Model ----
(***************************************************************************)
(* A model of report.py, the daily report generator: the path              *)
(* deduplicator, repository discovery, the notes parser, the manual entry  *)
(* builder, the VCS collectors and the timeline merge done by main.        *)
(*                                                                         *)
(* Strings are sequences of one-character strings, so that prefix tests,   *)
(* slicing, stripping and the HH:MM pattern are computed character by      *)
(* character as the code computes them.  A datetime is the number of       *)
(* seconds since 2025-01-01 00:00:00 local time.                           *)
(***************************************************************************)
EXTENDS Integers, Sequences, FiniteSets, TLC

VARIABLES
    pc,           \* position of the operation under way
    paths,        \* _dedup_paths: the argument `paths`
    filtered,     \* _dedup_paths: the returned list
    git_marked,   \* file system: the directories that hold a .git directory
    svn_marked,   \* file system: the directories that hold a .svn directory
    roots,        \* _discover_repos: the roots not yet walked
    stack,        \* os.walk: the directories still to be yielded, next first
    git_found,    \* _discover_repos: git_found
    svn_found,    \* _discover_repos: svn_found
    found,        \* _discover_repos: the returned pair
    start,        \* the first second of the report date (date_base)
    end,          \* the last second of the report date
    call,         \* the call under way or last made: its function and arguments
    ret,          \* what that call returned: [raised, entries]
    args,         \* main: the parsed command line and the clock
    git_paths,    \* main: git_paths
    svn_paths,    \* main: svn_paths
    repo_index,   \* main: the position of the repository loop under way
    all_entries,  \* main: all_entries, in collection order
    timeline      \* main: all_entries once sorted, as handed to the renderer

walkVars == <<roots, stack, git_found, svn_found, found>>
fsVars == <<git_marked, svn_marked>>
dedupVars == <<paths, filtered>>
rangeVars == <<start, end>>
callVars == <<call, ret>>
mainVars == <<args, git_paths, svn_paths, repo_index, all_entries, timeline>>
vars == <<pc, dedupVars, fsVars, walkVars, rangeVars, callVars, mainVars>>

(***************************************************************************)
(* Bounds of the model.                                                    *)
(***************************************************************************)
MaxPaths == 3          \* longest list handed to _dedup_paths
MaxRoots == 2          \* longest list of discovery roots
MaxNoteLines == 2      \* most lines of a notes file
MaxStatusLines == 2    \* most lines of a `git status` or `svn status` output
MaxLogLines == 2       \* most records of a `git log` or `svn log` output
MaxRepoArgs == 2       \* most paths given with --git, and with --svn
MaxAdds == 1           \* most --add items

(***************************************************************************)
(* Strings.                                                                *)
(***************************************************************************)
\* ord(c) for the characters the model uses (their ASCII code points)
Ord(c) ==
    CASE c = " " -> 32
      [] c = "(" -> 40
      [] c = ")" -> 41
      [] c = "/" -> 47
      [] c = "0" -> 48
      [] c = "1" -> 49
      [] c = "2" -> 50
      [] c = "3" -> 51
      [] c = "4" -> 52
      [] c = "5" -> 53
      [] c = "6" -> 54
      [] c = "7" -> 55
      [] c = "8" -> 56
      [] c = "9" -> 57
      [] c = ":" -> 58
      [] c = "?" -> 63
      [] c = "A" -> 65
      [] c = "M" -> 77
      [] c = "Z" -> 90
      [] c = "a" -> 97
      [] c = "b" -> 98
      [] c = "c" -> 99
      [] c = "x" -> 120
      [] c = "y" -> 121
      [] OTHER -> 127

\* str.__lt__: lexicographic order by code point
RECURSIVE StrLess(_, _)
StrLess(s, t) ==
    IF t = <<>> THEN FALSE
    ELSE IF s = <<>> THEN TRUE
    ELSE IF Ord(Head(s)) < Ord(Head(t)) THEN TRUE
    ELSE IF Ord(Head(s)) > Ord(Head(t)) THEN FALSE
    ELSE StrLess(Tail(s), Tail(t))

\* str.startswith
StartsWith(s, prefix) ==
    /\ Len(prefix) <= Len(s)
    /\ SubSeq(s, 1, Len(prefix)) = prefix

\* s[i:] with a 0-based i, as Python slices
SliceFrom(s, i) == IF i >= Len(s) THEN <<>> ELSE SubSeq(s, i + 1, Len(s))

\* s[:j] with a 0-based j
SliceTo(s, j) == IF j >= Len(s) THEN s ELSE SubSeq(s, 1, j)

\* membership of x in the sequence s
InSeq(x, s) == \E i \in 1..Len(s) : s[i] = x

(***************************************************************************)
(* os.path on POSIX.                                                       *)
(***************************************************************************)
Sep == "/"

\* os.getcwd(), an absolute normalised directory
Cwd == <<"/", "a">>

\* str.split("/") followed by the drop of empty components that normpath does
RECURSIVE Components(_, _)
Components(s, cur) ==
    IF s = <<>> THEN (IF cur = <<>> THEN <<>> ELSE <<cur>>)
    ELSE IF Head(s) = Sep
         THEN (IF cur = <<>> THEN <<>> ELSE <<cur>>) \o Components(Tail(s), <<>>)
         ELSE Components(Tail(s), Append(cur, Head(s)))

\* "/".join(comps)
RECURSIVE JoinSep(_)
JoinSep(comps) ==
    IF comps = <<>> THEN <<>>
    ELSE IF Len(comps) = 1 THEN comps[1]
    ELSE comps[1] \o <<Sep>> \o JoinSep(Tail(comps))

\* os.path.normpath; the model's paths have no "." or ".." component
NormPath(p) ==
    IF p = <<>> THEN <<".">>
    ELSE LET initial_slashes ==
                 IF ~StartsWith(p, <<Sep>>) THEN 0
                 ELSE IF StartsWith(p, <<Sep, Sep>>) /\ ~StartsWith(p, <<Sep, Sep, Sep>>)
                      THEN 2 ELSE 1
             body == JoinSep(Components(p, <<>>))
             out == [i \in 1..initial_slashes |-> Sep] \o body
         IN  IF out = <<>> THEN <<".">> ELSE out

\* os.path.join(a, b)
PathJoin(a, b) ==
    IF StartsWith(b, <<Sep>>) THEN b
    ELSE IF a = <<>> \/ a[Len(a)] = Sep THEN a \o b
    ELSE a \o <<Sep>> \o b

\* os.path.abspath
AbsPath(p) ==
    IF StartsWith(p, <<Sep>>) THEN NormPath(p) ELSE NormPath(PathJoin(Cwd, p))

(***************************************************************************)
(* _dedup_paths                                                            *)
(***************************************************************************)
\* the first loop: absolute forms, first occurrences only, in input order
RECURSIVE UniqueAbs(_, _)
UniqueAbs(ps, acc) ==
    IF ps = <<>> THEN acc
    ELSE LET ap == AbsPath(Head(ps))
         IN  UniqueAbs(Tail(ps), IF InSeq(ap, acc) THEN acc ELSE Append(acc, ap))

\* list.sort() of strings: insertion into an ascending list
RECURSIVE InsertStr(_, _)
InsertStr(s, sorted) ==
    IF sorted = <<>> THEN <<s>>
    ELSE IF StrLess(s, Head(sorted)) THEN <<s>> \o sorted
    ELSE <<Head(sorted)>> \o InsertStr(s, Tail(sorted))

RECURSIVE SortStrs(_)
SortStrs(ss) ==
    IF ss = <<>> THEN <<>> ELSE InsertStr(Head(ss), SortStrs(Tail(ss)))

\* the test of the second loop: some other q of result has q + os.sep as a prefix of p
CoveredBy(p, result) ==
    \E i \in 1..Len(result) :
        p /= result[i] /\ StartsWith(p, result[i] \o <<Sep>>)

RECURSIVE KeepUncovered(_, _)
KeepUncovered(ps, result) ==
    IF ps = <<>> THEN <<>>
    ELSE (IF CoveredBy(Head(ps), result) THEN <<>> ELSE <<Head(ps)>>)
         \o KeepUncovered(Tail(ps), result)

DedupPaths(ps) ==
    LET result == SortStrs(UniqueAbs(ps, <<>>))
    IN  KeepUncovered(result, result)

(***************************************************************************)
(* The path deduplicator on its own: any list of candidate paths.          *)
(***************************************************************************)
RawPaths ==
    { <<"/">>,
      <<"/", "a">>,
      <<"/", "a", "/", "b">>,
      <<"/", "a", "b">>,
      <<"/", "c">>,
      <<"/", "a", "/">>,
      <<"/", "/", "a">>,
      <<"b">> }

PathLists == UNION { [1..n -> RawPaths] : n \in 0..MaxPaths }

NoFileSystem ==
    /\ git_marked = {}
    /\ svn_marked = {}

NoRange ==
    /\ start = 0
    /\ end = 0

NoCall ==
    /\ call = <<>>
    /\ ret = <<>>

NoMain ==
    /\ args = <<>>
    /\ git_paths = <<>>
    /\ svn_paths = <<>>
    /\ repo_index = 0
    /\ all_entries = <<>>
    /\ timeline = <<>>

NoWalk ==
    /\ roots = <<>>
    /\ stack = <<>>
    /\ git_found = <<>>
    /\ svn_found = <<>>
    /\ found = <<>>

InitDedup ==
    /\ pc = "dedup_call"
    /\ paths \in PathLists
    /\ filtered = <<>>
    /\ NoFileSystem
    /\ NoWalk
    /\ NoRange
    /\ NoCall
    /\ NoMain

CallDedupPaths ==
    /\ pc = "dedup_call"
    /\ filtered' = DedupPaths(paths)
    /\ pc' = "dedup_ret"
    /\ UNCHANGED <<paths, fsVars, walkVars, rangeVars, callVars, mainVars>>

NextDedup == CallDedupPaths

SpecDedup == InitDedup /\ [][NextDedup]_vars

\* q is a proper ancestor directory of p: its components are a proper prefix
IsProperAncestor(q, p) ==
    LET qc == Components(q, <<>>)
        pc_ == Components(p, <<>>)
    IN  Len(qc) < Len(pc_) /\ SubSeq(pc_, 1, Len(qc)) = qc

\* the list ps is in ascending lexicographic order, with no string twice
StrictlySorted(ps) == \A i \in 1..(Len(ps) - 1) : StrLess(ps[i], ps[i + 1])

\* no path of ps lies strictly inside another path of ps
NoneNested(ps) ==
    \A i, j \in 1..Len(ps) : ~IsProperAncestor(ps[i], ps[j])

\* C3: _dedup_paths returns a sorted, duplicate-free list in which no path is
\* a strict descendant of another returned path, and it removes a path only
\* if a proper ancestor directory of that path is in the input.
C3_DedupContract ==
    pc = "dedup_ret" =>
        /\ StrictlySorted(filtered)
        /\ NoneNested(filtered)
        /\ \A i \in 1..Len(paths) :
               \/ InSeq(AbsPath(paths[i]), filtered)
               \/ \E j \in 1..Len(paths) :
                      IsProperAncestor(AbsPath(paths[j]), AbsPath(paths[i]))

(***************************************************************************)
(* The file system: a fixed set of directories, of which any may hold a    *)
(* .git directory, a .svn directory or both.                               *)
(***************************************************************************)
Dirs ==
    { <<"/">>,
      <<"/", "a">>,
      <<"/", "a", "/", "b">>,
      <<"/", "a", "b">> }

\* os.path.isdir
IsDir(p) == AbsPath(p) \in Dirs

\* the subdirectories os.walk lists for d, the marker directories aside
SubDirs(d) ==
    { c \in Dirs :
        LET cc == Components(c, <<>>)
            dc == Components(d, <<>>)
        IN  Len(cc) = Len(dc) + 1 /\ SubSeq(cc, 1, Len(dc)) = dc }

\* the orders in which os.scandir may list the set S
Orderings(S) ==
    { f \in [1..Cardinality(S) -> S] : \A i, j \in 1..Cardinality(S) : f[i] = f[j] => i = j }

(***************************************************************************)
(* _discover_repos: os.walk is top-down and depth-first; the body of the   *)
(* inner loop runs once for each directory yielded.  A marker directory    *)
(* left in dirnames (.svn beside .git) is walked too, but holds no marker  *)
(* of its own and is not listed here.                                      *)
(***************************************************************************)
\* for root in roots: root = os.path.abspath(root); os.walk(root) starts
WalkRoot ==
    /\ pc = "walk"
    /\ stack = <<>>
    /\ roots /= <<>>
    /\ LET root == AbsPath(Head(roots))
       IN  stack' = IF root \in Dirs THEN <<root>> ELSE <<>>
    /\ roots' = Tail(roots)
    /\ UNCHANGED <<pc, dedupVars, fsVars, git_found, svn_found, found, rangeVars, callVars, mainVars>>

\* one (dirpath, dirnames, filenames) of os.walk and the loop body on it
WalkDir ==
    /\ pc = "walk"
    /\ stack /= <<>>
    /\ LET dirpath == Head(stack)
       IN  /\ IF dirpath \in git_marked
              THEN /\ git_found' = Append(git_found, dirpath)
                   /\ UNCHANGED svn_found
              ELSE IF dirpath \in svn_marked
              THEN /\ svn_found' = Append(svn_found, dirpath)
                   /\ UNCHANGED git_found
              ELSE UNCHANGED <<git_found, svn_found>>
           /\ \E order \in Orderings(SubDirs(dirpath)) :
                  stack' = order \o Tail(stack)
    /\ UNCHANGED <<pc, dedupVars, fsVars, roots, found, rangeVars, callVars, mainVars>>

\* return _dedup_paths(git_found), _dedup_paths(svn_found)
WalkReturn ==
    /\ pc = "walk"
    /\ stack = <<>>
    /\ roots = <<>>
    /\ found' = <<DedupPaths(git_found), DedupPaths(svn_found)>>
    /\ pc' = "walk_ret"
    /\ UNCHANGED <<dedupVars, fsVars, roots, stack, git_found, svn_found, rangeVars, callVars, mainVars>>

RootChoices == { <<"/">>, <<"/", "a">>, <<"/", "a", "b">>, <<"b">>, <<"/", "c">> }

RootLists == UNION { [1..n -> RootChoices] : n \in 0..MaxRoots }

InitDiscover ==
    /\ pc = "walk"
    /\ paths = <<>>
    /\ filtered = <<>>
    /\ git_marked \in SUBSET Dirs
    /\ svn_marked \in SUBSET Dirs
    /\ roots \in RootLists
    /\ stack = <<>>
    /\ git_found = <<>>
    /\ svn_found = <<>>
    /\ found = <<>>
    /\ NoRange
    /\ NoCall
    /\ NoMain

NextDiscover == WalkRoot \/ WalkDir \/ WalkReturn

SpecDiscover == InitDiscover /\ [][NextDiscover]_vars

\* C4: no path returned by _discover_repos, in the git list or in the svn
\* list, lies strictly inside another returned repository root of either kind.
C4_NoNestedRoots ==
    pc = "walk_ret" => NoneNested(found[1] \o found[2])

(***************************************************************************)
(* Time.  A datetime is a number of seconds since 2025-01-01 00:00:00.     *)
(***************************************************************************)
SecondsPerMinute == 60
SecondsPerHour == 3600
SecondsPerDay == 86400

\* datetime.replace(hour=hh, minute=mm, second=0) is defined for these only;
\* for any other it raises ValueError
ValidTime(hh, mm) == hh \in 0..23 /\ mm \in 0..59

\* date_base.replace(hour=hh, minute=mm, second=0), for ValidTime(hh, mm)
ReplaceTime(date_base, hh, mm) ==
    (date_base - (date_base % SecondsPerDay)) + hh * SecondsPerHour + mm * SecondsPerMinute

(***************************************************************************)
(* The pattern ^(\d{1,2}):(\d{2})\s+(.+)$ of parse_notes and of main.       *)
(***************************************************************************)
Whitespace == {" ", "\t", "\n"}

Digits == {"0", "1", "2", "3", "4", "5", "6", "7", "8", "9"}

\* str.strip()
RECURSIVE LStrip(_)
LStrip(s) ==
    IF s /= <<>> /\ Head(s) \in Whitespace THEN LStrip(Tail(s)) ELSE s

RECURSIVE RStrip(_)
RStrip(s) ==
    IF s /= <<>> /\ s[Len(s)] \in Whitespace THEN RStrip(SubSeq(s, 1, Len(s) - 1)) ELSE s

Strip(s) == RStrip(LStrip(s))

\* int() of a string of decimal digits
RECURSIVE ToInt(_)
ToInt(ds) ==
    IF ds = <<>> THEN 0
    ELSE 10 * ToInt(SubSeq(ds, 1, Len(ds) - 1)) + (Ord(ds[Len(ds)]) - Ord("0"))

\* the number of leading characters of s that are digits
RECURSIVE DigitRun(_)
DigitRun(s) ==
    IF s /= <<>> /\ Head(s) \in Digits THEN 1 + DigitRun(Tail(s)) ELSE 0

\* the number of leading characters of s that are whitespace
RECURSIVE SpaceRun(_)
SpaceRun(s) ==
    IF s /= <<>> /\ Head(s) \in Whitespace THEN 1 + SpaceRun(Tail(s)) ELSE 0

\* re.match of the pattern: [matched, hh, mm, text].  \d{1,2} takes two digits
\* when there are two, and can give one back only to let ":" match, which a
\* digit never does; \s+ takes all the whitespace and gives back what (.+)
\* needs, which is a character only when nothing else follows.
TimeMatch(line) ==
    LET nh == DigitRun(line)
        afterH == SliceFrom(line, nh)
        afterC == SliceFrom(afterH, 1)
        nm == DigitRun(afterC)
        afterM == SliceFrom(afterC, 2)
        ns == SpaceRun(afterM)
        rest == SliceFrom(afterM, ns)
        text == IF rest = <<>> THEN SliceFrom(afterM, ns - 1) ELSE rest
        ok == /\ nh \in 1..2
              /\ afterH /= <<>> /\ Head(afterH) = ":"
              /\ nm >= 2
              /\ (ns >= 1 /\ rest /= <<>>) \/ ns >= 2
              /\ \A i \in 1..Len(text) : text[i] /= "\n"
    IN  IF ok
        THEN [matched |-> TRUE, hh |-> ToInt(SliceTo(line, nh)),
              mm |-> ToInt(SliceTo(afterC, 2)), text |-> text]
        ELSE [matched |-> FALSE, hh |-> 0, mm |-> 0, text |-> <<>>]

(***************************************************************************)
(* Entry, and the entry built from one line of text.                       *)
(***************************************************************************)
NoteSource == <<"n", "o", "t", "e">>
ManualSource == <<"m", "a", "n", "u", "a", "l">>

Entry(when, source, summary) == [when |-> when, source |-> source, summary |-> summary]

\* the body shared by the loop of parse_notes and the --add loop of main, on a
\* stripped line: [raised, entries]
LineEntry(line, date_base, source) ==
    LET m == TimeMatch(line)
    IN  IF m.matched
        THEN IF ValidTime(m.hh, m.mm)
             THEN [raised |-> FALSE,
                   entries |-> <<Entry(ReplaceTime(date_base, m.hh, m.mm), source, Strip(m.text))>>]
             ELSE [raised |-> TRUE, entries |-> <<>>]
        ELSE [raised |-> FALSE,
              entries |-> <<Entry(ReplaceTime(date_base, 9, 0), source, line)>>]

(***************************************************************************)
(* parse_notes.  A notes file is the sequence of its lines; open() raises   *)
(* FileNotFoundError for one that does not exist.                          *)
(***************************************************************************)
NoFile == [exists |-> FALSE, lines |-> <<>>]

RECURSIVE ParseLines(_, _, _)
ParseLines(lines, date_base, entries) ==
    IF lines = <<>> THEN [raised |-> FALSE, entries |-> entries]
    ELSE LET line == Strip(Head(lines))
         IN  IF line = <<>> THEN ParseLines(Tail(lines), date_base, entries)
             ELSE LET r == LineEntry(line, date_base, NoteSource)
                  IN  IF r.raised THEN [raised |-> TRUE, entries |-> <<>>]
                      ELSE ParseLines(Tail(lines), date_base, entries \o r.entries)

ParseNotes(file, date_base) ==
    IF ~file.exists THEN [raised |-> FALSE, entries |-> <<>>]
    ELSE ParseLines(file.lines, date_base, <<>>)

(***************************************************************************)
(* The notes parser on its own: any notes file, two report dates.          *)
(***************************************************************************)
NoteLines ==
    { <<"0", "9", ":", "1", "0", " ", "a", " ", "b">>,
      <<"x", " ", "y">>,
      <<>>,
      <<" ", " ">>,
      <<"7", ":", "0", "5", " ", " ", "y", " ">>,
      <<"2", "5", ":", "0", "0", " ", "x">>,
      <<"1", "2", ":", "6", "0", " ", "x">>,
      <<"2", "3", ":", "5", "9", " ", "x">>,
      <<" ", "0", ":", "0", "0", " ", "a">>,
      <<"9", ":", "5", " ", "x">>,
      <<"0", "9", ":", "1", "0">>,
      <<"0", "9", ":", "1", "0", "x">> }

NoteFiles ==
    { [exists |-> TRUE, lines |-> ls] :
        ls \in UNION { [1..n -> NoteLines] : n \in 0..MaxNoteLines } }

\* midnight of 2025-09-20 and of 2025-01-01
DateBases == {262 * SecondsPerDay, 0}

InitNotes ==
    /\ pc = "notes_call"
    /\ paths = <<>>
    /\ filtered = <<>>
    /\ NoFileSystem
    /\ NoWalk
    /\ start \in DateBases
    /\ end = start + SecondsPerDay - 1
    /\ \E file \in NoteFiles \cup {NoFile} : call = [fn |-> "parse_notes", file |-> file]
    /\ ret = <<>>
    /\ NoMain

CallParseNotes ==
    /\ pc = "notes_call"
    /\ ret' = ParseNotes(call.file, start)
    /\ pc' = "notes_ret"
    /\ UNCHANGED <<dedupVars, fsVars, walkVars, rangeVars, call, mainVars>>

NextNotes == CallParseNotes

SpecNotes == InitNotes /\ [][NextNotes]_vars

\* the stripped non-blank lines of a notes file, in file order
NonBlank(line) == Strip(line) /= <<>>

StrippedLines(file) ==
    LET kept == SelectSeq(file.lines, NonBlank)
    IN  [i \in 1..Len(kept) |-> Strip(kept[i])]

\* line reads: nh digits, ":", two digits, ns whitespace characters, then text
\* that starts at a character which is not whitespace
MarkerAt(line, nh, ns) ==
    /\ Len(line) >= nh + 3 + ns + 1
    /\ \A i \in 1..nh : line[i] \in Digits
    /\ line[nh + 1] = ":"
    /\ line[nh + 2] \in Digits /\ line[nh + 3] \in Digits
    /\ \A i \in (nh + 4)..(nh + 3 + ns) : line[i] \in Whitespace
    /\ line[nh + 4 + ns] \notin Whitespace

HasMarker(line) == \E nh \in 1..2, ns \in 1..Len(line) : MarkerAt(line, nh, ns)

MarkerOf(line) ==
    LET k == CHOOSE k \in (1..2) \X (1..Len(line)) : MarkerAt(line, k[1], k[2])
    IN  [hh |-> ToInt(SubSeq(line, 1, k[1])),
         mm |-> ToInt(SubSeq(line, k[1] + 2, k[1] + 3)),
         rest |-> SubSeq(line, k[1] + 4 + k[2], Len(line))]

\* what the contract asks of the entry e made from the stripped line
EntryFitsLine(e, line, date_base, source) ==
    /\ e.source = source
    /\ e.when \in date_base..(date_base + SecondsPerDay - 1)
    /\ IF HasMarker(line)
       THEN LET m == MarkerOf(line)
            IN  (m.hh \in 0..23 /\ m.mm \in 0..59) =>
                    /\ e.when = date_base + m.hh * 3600 + m.mm * 60
                    /\ e.summary = m.rest
       ELSE /\ e.when = date_base + 9 * 3600
            /\ e.summary = line

\* C5: parse_notes yields exactly one entry per non-blank line, in file
\* order, each with source "note" and a `when` on the report date: HH:MM and
\* the rest for a line with a time marker in range, 09:00 and the whole
\* stripped line for a line with none; nothing for a blank line, and the empty
\* list for a missing file.
C5_OneEntryPerLine ==
    pc = "notes_ret" =>
        /\ ~ret.raised
        /\ LET lines == StrippedLines(call.file)
           IN  /\ Len(ret.entries) = Len(lines)
               /\ \A i \in 1..Len(lines) :
                      EntryFitsLine(ret.entries[i], lines[i], start, NoteSource)

(***************************************************************************)
(* _run.  `installed` says whether the executable can be located; `answer` *)
(* is what the tool does when it runs: [code, out].                        *)
(***************************************************************************)
CommandNotFound == 127

\* _run without its `except FileNotFoundError`: the exception escapes
RunMissingRaises(installed, answer) ==
    IF installed
    THEN [raised |-> FALSE, code |-> answer.code, out |-> answer.out]
    ELSE [raised |-> TRUE, code |-> 0, out |-> <<>>]

Run(installed, answer) ==
    IF installed
    THEN [raised |-> FALSE, code |-> answer.code, out |-> answer.out]
    ELSE [raised |-> FALSE, code |-> CommandNotFound, out |-> <<>>]

\* str.splitlines() of a text whose only line break is "\n"
RECURSIVE SplitLines(_, _)
SplitLines(text, cur) ==
    IF text = <<>> THEN (IF cur = <<>> THEN <<>> ELSE <<cur>>)
    ELSE IF Head(text) = "\n" THEN <<cur>> \o SplitLines(Tail(text), <<>>)
    ELSE SplitLines(Tail(text), Append(cur, Head(text)))

\* os.path.basename(os.path.abspath(path))
RECURSIVE AfterLastSep(_, _)
AfterLastSep(p, cur) ==
    IF p = <<>> THEN cur
    ELSE IF Head(p) = Sep THEN AfterLastSep(Tail(p), <<>>)
    ELSE AfterLastSep(Tail(p), Append(cur, Head(p)))

RepoName(path) == AfterLastSep(AbsPath(path), <<>>)

\* _is_git_repo: `git rev-parse --is-inside-work-tree` answers "true"
IsGitRepo(installed, probe) ==
    LET r == Run(installed, probe)
    IN  [raised |-> r.raised, codes |-> <<r.code>>,
         yes |-> ~r.raised /\ r.code = 0 /\ Strip(r.out) = <<"t", "r", "u", "e">>]

\* _is_svn_repo: a .svn directory in path, or `svn info` succeeds
IsSvnRepo(path, installed, probe) ==
    IF AbsPath(path) \in svn_marked
    THEN [raised |-> FALSE, codes |-> <<>>, yes |-> TRUE]
    ELSE LET r == Run(installed, probe)
         IN  [raised |-> r.raised, codes |-> <<r.code>>, yes |-> ~r.raised /\ r.code = 0]

(***************************************************************************)
(* The status labels.  A Korean word is one token of the string.           *)
(***************************************************************************)
Modified == <<"sujeong">>
Added == <<"chuga">>
Deleted == <<"sakje">>
Moved == <<"idong">>
Copied == <<"boksa">>
MergeConflict == <<"byeonghapchungdol">>
Conflict == <<"chungdol">>
Missing == <<"nurak">>
Untracked == <<"michujeok">>
Changed == <<"byeongyeong">>

\* _vcs_status_label: `y or x` is y unless y is the empty string
VcsStatusLabel(xy) ==
    LET x == SliceTo(xy, 1)
        y == SliceTo(SliceFrom(xy, 1), 1)
        code == IF y /= <<>> THEN y ELSE x
    IN  CASE code = <<"M">> -> Modified
          [] code = <<"A">> -> Added
          [] code = <<"D">> -> Deleted
          [] code = <<"R">> -> Moved
          [] code = <<"C">> -> Copied
          [] code = <<"U">> -> MergeConflict
          [] code = <<"?">> -> Untracked
          [] OTHER -> IF code /= <<>> THEN code ELSE Changed

\* _svn_status_label
SvnStatusLabel(ch) ==
    CASE ch = <<"M">> -> Modified
      [] ch = <<"A">> -> Added
      [] ch = <<"D">> -> Deleted
      [] ch = <<"R">> -> Moved
      [] ch = <<"C">> -> Conflict
      [] ch = <<"!">> -> Missing
      [] ch = <<"?">> -> Untracked
      [] OTHER -> IF ch /= <<>> THEN ch ELSE Changed

(***************************************************************************)
(* The working-tree collectors.  `status` is the tool's answer to the      *)
(* status command; stats[i] is what os.path.getmtime gives for the file of *)
(* line i of its output: [exists, mtime].                                  *)
(***************************************************************************)
GitPrefix == <<"g", "i", "t", ":">>
SvnPrefix == <<"s", "v", "n", ":">>
WorkingPrefix == <<"jageop", " ", "jung", ":", " ">>

WorkingSummary(rel, label) == WorkingPrefix \o rel \o <<" ", "(">> \o label \o <<")">>

\* the test without its lower bound
InRangeUpperOnly(mtime, lo, hi) == mtime <= hi

\* start <= mtime <= end
InRange(mtime, lo, hi) == lo <= mtime /\ mtime <= hi

\* try: mtime = fromtimestamp(getmtime(abs_path)); except Exception: mtime = start
MTimeOrStart(stat, lo) == IF stat.exists THEN stat.mtime ELSE lo

RECURSIVE GitWorkingLines(_, _, _, _, _, _)
GitWorkingLines(lines, i, stats, source, lo, hi) ==
    IF i > Len(lines) THEN <<>>
    ELSE LET line == lines[i]
             status == SliceTo(line, 2)
             rel == Strip(SliceFrom(line, 3))
             mtime == MTimeOrStart(stats[i], lo)
         IN  (IF Strip(line) = <<>> \/ ~InRange(mtime, lo, hi) THEN <<>>
              ELSE <<Entry(mtime, source, WorkingSummary(rel, VcsStatusLabel(status)))>>)
             \o GitWorkingLines(lines, i + 1, stats, source, lo, hi)

CollectGitWorking(path, lo, hi, installed, probe, status, stats) ==
    LET repo == IsGitRepo(installed, probe)
        r == Run(installed, status)
    IN  IF repo.raised THEN [raised |-> TRUE, codes |-> repo.codes, entries |-> <<>>]
        ELSE IF ~repo.yes THEN [raised |-> FALSE, codes |-> repo.codes, entries |-> <<>>]
        ELSE IF r.raised THEN [raised |-> TRUE, codes |-> repo.codes \o <<r.code>>, entries |-> <<>>]
        ELSE IF r.code /= 0 \/ Strip(r.out) = <<>>
             THEN [raised |-> FALSE, codes |-> repo.codes \o <<r.code>>, entries |-> <<>>]
        ELSE [raised |-> FALSE, codes |-> repo.codes \o <<r.code>>,
              entries |-> GitWorkingLines(SplitLines(r.out, <<>>), 1, stats,
                                          GitPrefix \o RepoName(path), lo, hi)]

RECURSIVE SvnWorkingLines(_, _, _, _, _, _)
SvnWorkingLines(lines, i, stats, source, lo, hi) ==
    IF i > Len(lines) THEN <<>>
    ELSE LET line == lines[i]
             status == SliceTo(line, 1)
             rel == IF Len(line) > 8 THEN Strip(SliceFrom(line, 8)) ELSE Strip(SliceFrom(line, 1))
             mtime == MTimeOrStart(stats[i], lo)
         IN  (IF Strip(line) = <<>> \/ ~InRange(mtime, lo, hi) THEN <<>>
              ELSE <<Entry(mtime, source, WorkingSummary(rel, SvnStatusLabel(status)))>>)
             \o SvnWorkingLines(lines, i + 1, stats, source, lo, hi)

CollectSvnWorking(path, lo, hi, installed, probe, status, stats) ==
    LET repo == IsSvnRepo(path, installed, probe)
        r == Run(installed, status)
    IN  IF repo.raised THEN [raised |-> TRUE, codes |-> repo.codes, entries |-> <<>>]
        ELSE IF ~repo.yes THEN [raised |-> FALSE, codes |-> repo.codes, entries |-> <<>>]
        ELSE IF r.raised THEN [raised |-> TRUE, codes |-> repo.codes \o <<r.code>>, entries |-> <<>>]
        ELSE IF r.code /= 0 \/ Strip(r.out) = <<>>
             THEN [raised |-> FALSE, codes |-> repo.codes \o <<r.code>>, entries |-> <<>>]
        ELSE [raised |-> FALSE, codes |-> repo.codes \o <<r.code>>,
              entries |-> SvnWorkingLines(SplitLines(r.out, <<>>), 1, stats,
                                          SvnPrefix \o RepoName(path), lo, hi)]

(***************************************************************************)
(* The log collectors.  The output of `git log` is the sequence of its     *)
(* lines, each the sequence of its fields between the \x1f separators; the *)
(* output of `svn log --xml` is the sequence of its (date, msg) pairs.  A   *)
(* date text is [form, t]: form "iso" is read by fromisoformat, "spaced"    *)
(* (date, space, time, space, zone) only by the strptime of its first two   *)
(* tokens, "junk" by neither; t is the local time it denotes.               *)
(***************************************************************************)
\* the two-stage fallback of collect_git, then the range start
GitDate(ad, lo) ==
    IF ad.form = "iso" THEN ad.t
    ELSE IF ad.form = "spaced" THEN ad.t
    ELSE lo

\* the single stage of collect_svn, then the range start
SvnDate(ad, lo) == IF ad.form = "iso" THEN ad.t ELSE lo

RECURSIVE GitLogLines(_, _, _)
GitLogLines(lines, source, lo) ==
    IF lines = <<>> THEN <<>>
    ELSE LET parts == Head(lines)
         IN  (IF Len(parts) /= 3 THEN <<>>
              ELSE <<Entry(GitDate(parts[2], lo), source, Strip(parts[3]))>>)
             \o GitLogLines(Tail(lines), source, lo)

CollectGit(path, lo, hi, installed, probe, log) ==
    LET repo == IsGitRepo(installed, probe)
        r == Run(installed, log)
    IN  IF repo.raised THEN [raised |-> TRUE, codes |-> repo.codes, entries |-> <<>>]
        ELSE IF ~repo.yes THEN [raised |-> FALSE, codes |-> repo.codes, entries |-> <<>>]
        ELSE IF r.raised THEN [raised |-> TRUE, codes |-> repo.codes \o <<r.code>>, entries |-> <<>>]
        ELSE IF r.code /= 0 \/ r.out = <<>>
             THEN [raised |-> FALSE, codes |-> repo.codes \o <<r.code>>, entries |-> <<>>]
        ELSE [raised |-> FALSE, codes |-> repo.codes \o <<r.code>>,
              entries |-> GitLogLines(r.out, GitPrefix \o RepoName(path), lo)]

\* re.sub(r"\s+", " ", text)
RECURSIVE CollapseSpace(_)
CollapseSpace(text) ==
    IF text = <<>> THEN <<>>
    ELSE IF Head(text) \in Whitespace
         THEN <<" ">> \o CollapseSpace(SliceFrom(text, SpaceRun(text)))
         ELSE <<Head(text)>> \o CollapseSpace(Tail(text))

\* zip(dates, msgs): the pairs, in order of appearance
RECURSIVE SvnLogPairs(_, _, _)
SvnLogPairs(pairs, source, lo) ==
    IF pairs = <<>> THEN <<>>
    ELSE <<Entry(SvnDate(Head(pairs)[1], lo), source, CollapseSpace(Strip(Head(pairs)[2])))>>
         \o SvnLogPairs(Tail(pairs), source, lo)

CollectSvn(path, lo, hi, installed, probe, log) ==
    LET repo == IsSvnRepo(path, installed, probe)
        r == Run(installed, log)
    IN  IF repo.raised THEN [raised |-> TRUE, codes |-> repo.codes, entries |-> <<>>]
        ELSE IF ~repo.yes THEN [raised |-> FALSE, codes |-> repo.codes, entries |-> <<>>]
        ELSE IF r.raised THEN [raised |-> TRUE, codes |-> repo.codes \o <<r.code>>, entries |-> <<>>]
        ELSE IF r.code /= 0 \/ r.out = <<>>
             THEN [raised |-> FALSE, codes |-> repo.codes \o <<r.code>>, entries |-> <<>>]
        ELSE [raised |-> FALSE, codes |-> repo.codes \o <<r.code>>,
              entries |-> SvnLogPairs(r.out, SvnPrefix \o RepoName(path), lo)]

(***************************************************************************)
(* What the tools and the file system may answer.                          *)
(***************************************************************************)
\* "\n".join(lines) + "\n"
RECURSIVE JoinLines(_)
JoinLines(lines) ==
    IF lines = <<>> THEN <<>> ELSE Head(lines) \o <<"\n">> \o JoinLines(Tail(lines))

GitProbeAnswers ==
    { [code |-> 0, out |-> <<"t", "r", "u", "e", "\n">>],
      [code |-> 128, out |-> <<>>] }

SvnProbeAnswers == { [code |-> 0, out |-> <<"i">>], [code |-> 1, out |-> <<>>] }

GitStatusLines ==
    { <<" ", "M", " ", "f">>,
      <<"M", " ", " ", "f">>,
      <<"?", "?", " ", "g">>,
      <<"Z", " ", " ", "f">>,
      <<" ", " ">> }

SvnStatusLines ==
    { <<"M", " ", " ", " ", " ", " ", " ", " ", "f">>,
      <<"!", " ", " ", " ", " ", " ", " ", " ", "g">>,
      <<"Z", " ", "f">>,
      <<" ">> }

\* getmtime: before the range, its first second, its last second, after it,
\* or OSError
StatAnswers(lo, hi) ==
    { [exists |-> TRUE, mtime |-> t] : t \in {lo - 1, lo, hi, hi + 1} }
    \cup { [exists |-> FALSE, mtime |-> 0] }

DateTexts(lo) ==
    { [form |-> "iso", t |-> lo + 33300],
      [form |-> "spaced", t |-> lo + 32400],
      [form |-> "junk", t |-> 0] }

Subjects == { <<"f", "i", "x">>, <<" ", "a", " ">> }

Messages == { <<"f", "i", "x">>, <<"a", " ", "\n", " ", "b", "\n">> }

GitLogRecords(lo) ==
    { <<<<"h">>, ad, subj>> : ad \in DateTexts(lo), subj \in Subjects }
    \cup { <<<<"h">>, <<"x">>>> }

GitLogAnswers(lo) ==
    { [code |-> 0, out |-> ls] :
        ls \in UNION { [1..n -> GitLogRecords(lo)] : n \in 0..MaxLogLines } }
    \cup { [code |-> 128, out |-> <<>>] }

SvnLogAnswers(lo) ==
    { [code |-> 0, out |-> ls] :
        ls \in UNION { [1..n -> DateTexts(lo) \X Messages] : n \in 0..MaxLogLines } }
    \cup { [code |-> 1, out |-> <<>>] }

(***************************************************************************)
(* The collectors on their own: one call of one collector on /a, with the  *)
(* tool installed or not, and any answers.                                 *)
(***************************************************************************)
RepoPath == <<"/", "a">>

CollectCall(fn, installed, probe, answer, stats) ==
    [fn |-> fn, path |-> RepoPath, installed |-> installed, probe |-> probe,
     answer |-> answer, stats |-> stats]

\* a status answer that lists the lines ls[i][1], and the stat answers ls[i][2]
ListingCall(fn, installed, probe, ls) ==
    CollectCall(fn, installed, probe,
                [code |-> 0, out |-> JoinLines([i \in 1..Len(ls) |-> ls[i][1]])],
                [i \in 1..Len(ls) |-> ls[i][2]])

FailedStatus == [code |-> 1, out |-> <<>>]

InitCollect ==
    /\ pc = "collect_call"
    /\ paths = <<>>
    /\ filtered = <<>>
    /\ git_marked = {}
    /\ svn_marked \in {{}, {RepoPath}}
    /\ NoWalk
    /\ start = 262 * SecondsPerDay
    /\ end = start + SecondsPerDay - 1
    /\ \E installed \in BOOLEAN :
          \/ \E probe \in GitProbeAnswers, log \in GitLogAnswers(start) :
                call = CollectCall("collect_git", installed, probe, log, <<>>)
          \/ \E probe \in SvnProbeAnswers, log \in SvnLogAnswers(start) :
                call = CollectCall("collect_svn", installed, probe, log, <<>>)
          \/ \E probe \in GitProbeAnswers :
                \/ call = CollectCall("collect_git_working", installed, probe, FailedStatus, <<>>)
                \/ \E n \in 0..MaxStatusLines :
                      \E ls \in [1..n -> GitStatusLines \X StatAnswers(start, end)] :
                         call = ListingCall("collect_git_working", installed, probe, ls)
          \/ \E probe \in SvnProbeAnswers :
                \/ call = CollectCall("collect_svn_working", installed, probe, FailedStatus, <<>>)
                \/ \E n \in 0..MaxStatusLines :
                      \E ls \in [1..n -> SvnStatusLines \X StatAnswers(start, end)] :
                         call = ListingCall("collect_svn_working", installed, probe, ls)
    /\ ret = <<>>
    /\ NoMain

CallCollectGit ==
    /\ pc = "collect_call"
    /\ call.fn = "collect_git"
    /\ ret' = CollectGit(call.path, start, end, call.installed, call.probe, call.answer)
    /\ pc' = "collect_ret"
    /\ UNCHANGED <<dedupVars, fsVars, walkVars, rangeVars, call, mainVars>>

CallCollectSvn ==
    /\ pc = "collect_call"
    /\ call.fn = "collect_svn"
    /\ ret' = CollectSvn(call.path, start, end, call.installed, call.probe, call.answer)
    /\ pc' = "collect_ret"
    /\ UNCHANGED <<dedupVars, fsVars, walkVars, rangeVars, call, mainVars>>

CallCollectGitWorking ==
    /\ pc = "collect_call"
    /\ call.fn = "collect_git_working"
    /\ ret' = CollectGitWorking(call.path, start, end, call.installed, call.probe,
                                call.answer, call.stats)
    /\ pc' = "collect_ret"
    /\ UNCHANGED <<dedupVars, fsVars, walkVars, rangeVars, call, mainVars>>

CallCollectSvnWorking ==
    /\ pc = "collect_call"
    /\ call.fn = "collect_svn_working"
    /\ ret' = CollectSvnWorking(call.path, start, end, call.installed, call.probe,
                                call.answer, call.stats)
    /\ pc' = "collect_ret"
    /\ UNCHANGED <<dedupVars, fsVars, walkVars, rangeVars, call, mainVars>>

NextCollect ==
    \/ CallCollectGit
    \/ CallCollectSvn
    \/ CallCollectGitWorking
    \/ CallCollectSvnWorking

SpecCollect == InitCollect /\ [][NextCollect]_vars

\* the call is of a working-tree collector that got a status listing: the
\* tool is installed, the path passed the repository test, the status
\* command succeeded
Listed ==
    /\ pc = "collect_ret"
    /\ call.fn \in {"collect_git_working", "collect_svn_working"}
    /\ call.installed
    /\ call.answer.code = 0
    /\ IF call.fn = "collect_git_working"
       THEN call.probe.code = 0
       ELSE call.probe.code = 0 \/ call.path \in svn_marked

StatusLines == SplitLines(call.answer.out, <<>>)

\* line i of the listing is to be reported: it is not blank, and its file
\* cannot be stat'ed or was modified within [start, end]
Reported(i) ==
    /\ Strip(StatusLines[i]) /= <<>>
    /\ ~call.stats[i].exists \/ (start <= call.stats[i].mtime /\ call.stats[i].mtime <= end)

\* the lines to be reported, in order
RECURSIVE ReportedFrom(_)
ReportedFrom(i) ==
    IF i > Len(StatusLines) THEN <<>>
    ELSE (IF Reported(i) THEN <<i>> ELSE <<>>) \o ReportedFrom(i + 1)

ends_with(s, suffix) ==
    Len(suffix) <= Len(s) /\ SubSeq(s, Len(s) - Len(suffix) + 1, Len(s)) = suffix

\* C6: for a status taken from a `git status --porcelain` line, the label is
\* the one meaning "modified" when the code M sits in the staged column ("M ")
\* or in the unstaged column (" M"), and "Z" itself or the "changed" fallback
\* for the unknown code Z in either column.
C6_GitLabelOfCode ==
    (Listed /\ call.fn = "collect_git_working") =>
        LET kept == ReportedFrom(1)
        IN  \A k \in 1..Len(kept) :
                LET xy == SliceTo(StatusLines[kept[k]], 2)
                    summary == IF k <= Len(ret.entries) THEN ret.entries[k].summary ELSE <<>>
                IN  /\ xy \in {<<"M", " ">>, <<" ", "M">>} =>
                           ends_with(summary, <<" ", "(">> \o Modified \o <<")">>)
                    /\ xy \in {<<"Z", " ">>, <<" ", "Z">>} =>
                           \/ ends_with(summary, <<" ", "(", "Z", ")">>)
                           \/ ends_with(summary, <<" ", "(">> \o Changed \o <<")">>)

\* C7: every entry of collect_git_working and collect_svn_working has
\* start <= when <= end; a status line whose file was modified outside
\* [start, end] gives no entry; one whose file cannot be stat'ed gives an
\* entry with when = start.
C7_WorkingWithinRange ==
    (pc = "collect_ret" /\ call.fn \in {"collect_git_working", "collect_svn_working"}) =>
        /\ ~ret.raised
        /\ \A k \in 1..Len(ret.entries) :
               start <= ret.entries[k].when /\ ret.entries[k].when <= end
        /\ Listed =>
               LET kept == ReportedFrom(1)
               IN  /\ Len(ret.entries) = Len(kept)
                   /\ \A k \in 1..Len(kept) :
                          ret.entries[k].when =
                              IF call.stats[kept[k]].exists
                              THEN call.stats[kept[k]].mtime ELSE start

\* a listing of two lines: the file of one cannot be stat'ed and is reported
\* at the range start, the file of the other was modified after the range
C7_Witness ==
    /\ Listed
    /\ Len(StatusLines) = 2
    /\ ~call.stats[1].exists /\ Strip(StatusLines[1]) /= <<>>
    /\ call.stats[2].exists /\ call.stats[2].mtime > end /\ Strip(StatusLines[2]) /= <<>>
    /\ Len(ret.entries) = 1
    /\ ret.entries[1].when = start

\* C10: when the executable cannot be located, _run gives exit code 127
\* without raising and each collector returns the empty list, for every
\* path, a path that holds a .svn directory included.
C10_MissingToolFindsNothing ==
    (pc = "collect_ret" /\ ~call.installed) =>
        /\ ~ret.raised
        /\ ret.entries = <<>>
        /\ \A i \in 1..Len(ret.codes) : ret.codes[i] = 127

\* collect_svn on a path that holds .svn, svn not installed, though the tool
\* would have had records to report
C10_Witness ==
    /\ pc = "collect_ret"
    /\ call.fn = "collect_svn"
    /\ ~call.installed
    /\ call.path \in svn_marked
    /\ call.answer.code = 0 /\ Len(call.answer.out) = 2
    /\ ret.codes = <<127>>
    /\ ret.entries = <<>>

(***************************************************************************)
(* _local_today_range.  Dates are those of 2025 and later.                 *)
(***************************************************************************)
IsLeap(y) == (y % 4 = 0 /\ y % 100 /= 0) \/ y % 400 = 0

DaysInMonth(y, m) ==
    IF m = 2 THEN (IF IsLeap(y) THEN 29 ELSE 28)
    ELSE IF m \in {4, 6, 9, 11} THEN 30 ELSE 31

RECURSIVE DaysBeforeMonth(_, _)
DaysBeforeMonth(y, m) ==
    IF m <= 1 THEN 0 ELSE DaysBeforeMonth(y, m - 1) + DaysInMonth(y, m - 1)

DaysBeforeYear(y) ==
    (y - 2025) * 365 + Cardinality({k \in 2025..(y - 1) : IsLeap(k)})

\* str.split("-")
RECURSIVE SplitDash(_, _)
SplitDash(text, cur) ==
    IF text = <<>> THEN <<cur>>
    ELSE IF Head(text) = "-" THEN <<cur>> \o SplitDash(Tail(text), <<>>)
    ELSE SplitDash(Tail(text), Append(cur, Head(text)))

AllDigits(text) == \A i \in 1..Len(text) : text[i] \in Digits

\* datetime.strptime(date_str, "%Y-%m-%d"): [ok, t], t the midnight of the
\* date; not ok stands for the ValueError
StrpDate(date_str) ==
    LET f == SplitDash(date_str, <<>>)
        shaped == /\ Len(f) = 3
                  /\ Len(f[1]) = 4 /\ AllDigits(f[1])
                  /\ Len(f[2]) \in 1..2 /\ AllDigits(f[2])
                  /\ Len(f[3]) \in 1..2 /\ AllDigits(f[3])
        y == ToInt(f[1])
        m == ToInt(f[2])
        d == ToInt(f[3])
    IN  IF shaped /\ y >= 1 /\ m \in 1..12 /\ d >= 1 /\ d <= DaysInMonth(y, m)
        THEN [ok |-> TRUE,
              t |-> (DaysBeforeYear(y) + DaysBeforeMonth(y, m) + (d - 1)) * SecondsPerDay]
        ELSE [ok |-> FALSE, t |-> 0]

\* [raised, start, end]; date is [given, text], now the reading of the clock
LocalTodayRange(date, now) ==
    LET parsed == IF date.given /\ date.text /= <<>> THEN StrpDate(date.text)
                  ELSE [ok |-> TRUE, t |-> now - (now % SecondsPerDay)]
    IN  [raised |-> ~parsed.ok,
         start |-> parsed.t,
         end |-> parsed.t + SecondsPerDay - 1]

(***************************************************************************)
(* The --add loop of main and the sort of the timeline.                    *)
(***************************************************************************)
RECURSIVE ManualEntries(_, _, _)
ManualEntries(adds, date_base, entries) ==
    IF adds = <<>> THEN [raised |-> FALSE, entries |-> entries]
    ELSE LET r == LineEntry(Strip(Head(adds)), date_base, ManualSource)
         IN  IF r.raised THEN [raised |-> TRUE, entries |-> <<>>]
             ELSE ManualEntries(Tail(adds), date_base, entries \o r.entries)

\* e put last, whatever its time: a list left in collection order
InsertLast(e, sorted) == Append(sorted, e)

\* e put before the entries of its own time: a sort that is not stable
RECURSIVE InsertBeforeEqual(_, _)
InsertBeforeEqual(e, sorted) ==
    IF sorted = <<>> THEN <<e>>
    ELSE IF e.when <= Head(sorted).when THEN <<e>> \o sorted
    ELSE <<Head(sorted)>> \o InsertBeforeEqual(e, Tail(sorted))

\* the place of e in an ascending list: after every entry that is not later
RECURSIVE InsertByWhen(_, _)
InsertByWhen(e, sorted) ==
    IF sorted = <<>> THEN <<e>>
    ELSE IF e.when < Head(sorted).when THEN <<e>> \o sorted
    ELSE <<Head(sorted)>> \o InsertByWhen(e, Tail(sorted))

RECURSIVE SortFrom(_, _)
SortFrom(es, sorted) ==
    IF es = <<>> THEN sorted ELSE SortFrom(Tail(es), InsertByWhen(Head(es), sorted))

\* all_entries.sort(key=lambda e: e.when): ascending by `when`, stable
SortEntries(es) == SortFrom(es, <<>>)

(***************************************************************************)
(* main: the inputs of a run.                                              *)
(***************************************************************************)
DateArgs ==
    { [given |-> FALSE, text |-> <<>>],
      [given |-> TRUE, text |-> <<"2", "0", "2", "5", "-", "0", "9", "-", "2", "0">>],
      [given |-> TRUE, text |-> <<"2", "0", "2", "5", "-", "0", "2", "-", "3", "0">>] }

\* the clock at the start of the run: 2025-04-11 01:23:20
Clock == 100 * SecondsPerDay + 5000

RepoArgs == { <<"/", "a">>, <<"/", "a", "/", "b">> }

RepoArgLists == UNION { [1..n -> RepoArgs] : n \in 0..MaxRepoArgs }

\* /c is not a directory
SvnArgLists == { <<>>, << <<"/", "a", "b">> >>, << <<"/", "c">> >> }

RootArgs == { <<>>, << <<"/">> >> }

\* the markers on disk: a git repository at /a with an svn working copy at
\* /a/b inside it and another at /ab; or a git repository at / and one at /a
FileSystems ==
    { [git |-> {<<"/", "a">>}, svn |-> {<<"/", "a", "/", "b">>, <<"/", "a", "b">>}],
      [git |-> {<<"/">>, <<"/", "a">>}, svn |-> {}] }

\* the notes file named by --notes, if any: [given, file]
NotesArgs ==
    { [given |-> FALSE, file |-> NoFile],
      [given |-> TRUE, file |-> NoFile],
      [given |-> TRUE, file |-> [exists |-> TRUE, lines |-> <<<<"1", "4", ":", "0", "0", " ", "x">>, <<"x", " ", "y">>>>]],
      [given |-> TRUE, file |-> [exists |-> TRUE, lines |-> <<<<"2", "5", ":", "0", "0", " ", "x">>>>]] }

AddItems == { <<"1", "4", ":", "0", "0", " ", "r">>, <<" ", "x", " ", "y">>, <<"9", ":", "6", "0", " ", "x">> }

AddLists == UNION { [1..n -> AddItems] : n \in 0..MaxAdds }

\* what the tools answer to main's collectors
MainGitLogs(lo) ==
    { [code |-> 128, out |-> <<>>],
      [code |-> 0, out |-> << <<<<"h">>, [form |-> "iso", t |-> lo + 33300], <<"f", "i", "x">>>>,
                             <<<<"h">>, [form |-> "spaced", t |-> lo + 32400], <<"f", "i", "x">>>> >>] }

MainSvnLogs(lo) ==
    { [code |-> 1, out |-> <<>>],
      [code |-> 0, out |-> << <<[form |-> "iso", t |-> lo + 32400], <<"f", "i", "x">>>> >>] }

MainListings(line, lo) ==
    { [status |-> [code |-> 1, out |-> <<>>], stats |-> <<>>],
      [status |-> [code |-> 0, out |-> line \o <<"\n">>],
       stats |-> <<[exists |-> FALSE, mtime |-> 0]>>] }

InitMain ==
    /\ pc = "main"
    /\ paths = <<>>
    /\ filtered = <<>>
    /\ \E fs \in FileSystems : git_marked = fs.git /\ svn_marked = fs.svn
    /\ NoWalk
    /\ NoRange
    /\ NoCall
    /\ args \in [date : DateArgs, now : {Clock}, discover : BOOLEAN, roots : RootArgs,
                  no_vcs : BOOLEAN, no_working : BOOLEAN]
    /\ ~args.discover => args.roots = <<>>
    /\ git_paths \in RepoArgLists
    /\ svn_paths \in SvnArgLists
    /\ repo_index = 0
    /\ all_entries = <<>>
    /\ timeline = <<>>

(***************************************************************************)
(* main, step by step.                                                     *)
(***************************************************************************)
\* start, end = _local_today_range(args.date); then `if discover_flag:`
MainRange ==
    /\ pc = "main"
    /\ LET r == LocalTodayRange(args.date, args.now)
       IN  IF r.raised
           THEN /\ pc' = "main_raised"
                /\ UNCHANGED <<rangeVars, roots>>
           ELSE /\ start' = r.start
                /\ end' = r.end
                /\ IF args.discover
                   THEN /\ roots' = IF args.roots = <<>> THEN <<Cwd>> ELSE args.roots
                        /\ pc' = "walk"
                   ELSE /\ pc' = "main_notes"
                        /\ UNCHANGED roots
    /\ UNCHANGED <<dedupVars, fsVars, stack, git_found, svn_found, found, callVars, mainVars>>

\* git_paths = _dedup_paths(git_paths + found_git), and the same for svn
MainMergeFound ==
    /\ pc = "walk_ret"
    /\ args /= <<>>
    /\ git_paths' = DedupPaths(git_paths \o found[1])
    /\ svn_paths' = DedupPaths(svn_paths \o found[2])
    /\ pc' = "main_notes"
    /\ UNCHANGED <<dedupVars, fsVars, walkVars, rangeVars, callVars,
                   args, repo_index, all_entries, timeline>>

\* if notes_path: all_entries.extend(parse_notes(notes_path, date_base))
MainNotes ==
    /\ pc = "main_notes"
    /\ \E notes \in NotesArgs :
          LET r == IF notes.given THEN ParseNotes(notes.file, start)
                   ELSE [raised |-> FALSE, entries |-> <<>>]
          IN  IF r.raised
              THEN /\ pc' = "main_raised"
                   /\ UNCHANGED all_entries
              ELSE /\ all_entries' = all_entries \o r.entries
                   /\ pc' = "main_manual"
    /\ UNCHANGED <<dedupVars, fsVars, walkVars, rangeVars, callVars,
                   args, git_paths, svn_paths, repo_index, timeline>>

\* for add_item in args.add: ...; then `if not args.no_vcs:`
MainManual ==
    /\ pc = "main_manual"
    /\ \E adds \in AddLists :
          LET r == ManualEntries(adds, start, <<>>)
          IN  IF r.raised
              THEN /\ pc' = "main_raised"
                   /\ UNCHANGED <<all_entries, repo_index>>
              ELSE /\ all_entries' = all_entries \o r.entries
                   /\ repo_index' = 1
                   /\ pc' = IF args.no_vcs THEN "main_sort" ELSE "main_git"
    /\ UNCHANGED <<dedupVars, fsVars, walkVars, rangeVars, callVars,
                   args, git_paths, svn_paths, timeline>>

\* one round of `for repo in git_paths:`
MainGitRepo ==
    /\ pc = "main_git"
    /\ repo_index <= Len(git_paths)
    /\ LET repo == git_paths[repo_index]
       IN  \E installed \in BOOLEAN, probe \in GitProbeAnswers, log \in MainGitLogs(start),
              listing \in MainListings(<<" ", "M", " ", "f">>, start) :
              LET logged == CollectGit(repo, start, end, installed, probe, log)
                  working == CollectGitWorking(repo, start, end, installed, probe,
                                               listing.status, listing.stats)
              IN  all_entries' =
                      IF ~IsDir(repo) THEN all_entries
                      ELSE all_entries \o logged.entries
                           \o (IF ~args.no_working THEN working.entries ELSE <<>>)
    /\ repo_index' = repo_index + 1
    /\ UNCHANGED <<pc, dedupVars, fsVars, walkVars, rangeVars, callVars,
                   args, git_paths, svn_paths, timeline>>

\* the git loop is over
MainGitDone ==
    /\ pc = "main_git"
    /\ repo_index > Len(git_paths)
    /\ repo_index' = 1
    /\ pc' = "main_svn"
    /\ UNCHANGED <<dedupVars, fsVars, walkVars, rangeVars, callVars,
                   args, git_paths, svn_paths, all_entries, timeline>>

\* one round of `for repo in svn_paths:`
MainSvnRepo ==
    /\ pc = "main_svn"
    /\ repo_index <= Len(svn_paths)
    /\ LET repo == svn_paths[repo_index]
       IN  \E installed \in BOOLEAN, probe \in SvnProbeAnswers, log \in MainSvnLogs(start),
              listing \in MainListings(<<"M", " ", " ", " ", " ", " ", " ", " ", "f">>, start) :
              LET logged == CollectSvn(repo, start, end, installed, probe, log)
                  working == CollectSvnWorking(repo, start, end, installed, probe,
                                               listing.status, listing.stats)
              IN  all_entries' =
                      IF ~IsDir(repo) THEN all_entries
                      ELSE all_entries \o logged.entries
                           \o (IF ~args.no_working THEN working.entries ELSE <<>>)
    /\ repo_index' = repo_index + 1
    /\ UNCHANGED <<pc, dedupVars, fsVars, walkVars, rangeVars, callVars,
                   args, git_paths, svn_paths, timeline>>

\* the svn loop is over
MainSvnDone ==
    /\ pc = "main_svn"
    /\ repo_index > Len(svn_paths)
    /\ pc' = "main_sort"
    /\ UNCHANGED <<dedupVars, fsVars, walkVars, rangeVars, callVars, mainVars>>

\* all_entries.sort(key=lambda e: e.when); the renderer gets the result
MainSort ==
    /\ pc = "main_sort"
    /\ timeline' = SortEntries(all_entries)
    /\ pc' = "main_done"
    /\ UNCHANGED <<dedupVars, fsVars, walkVars, rangeVars, callVars,
                   args, git_paths, svn_paths, repo_index, all_entries>>

Next ==
    \/ MainRange
    \/ WalkRoot
    \/ WalkDir
    \/ WalkReturn
    \/ MainMergeFound
    \/ MainNotes
    \/ MainManual
    \/ MainGitRepo
    \/ MainGitDone
    \/ MainSvnRepo
    \/ MainSvnDone
    \/ MainSort

Spec == InitMain /\ [][Next]_vars

(***************************************************************************)
(* Properties of a run of main.                                            *)
(***************************************************************************)
\* C1: the sequence of entries handed to the renderer is ordered
\* non-decreasing by `when`.
C1_TimelineSorted ==
    pc = "main_done" =>
        \A i \in 1..(Len(timeline) - 1) : timeline[i].when <= timeline[i + 1].when

\* a run that collected a note, a manual entry and git entries, and not in
\* order of time
C1_Witness ==
    /\ pc = "main_done"
    /\ Len(timeline) >= 4
    /\ \E i \in 1..(Len(all_entries) - 1) : all_entries[i].when > all_entries[i + 1].when
    /\ \E i, j, k \in 1..Len(timeline) :
          /\ timeline[i].source = NoteSource
          /\ timeline[j].source = ManualSource
          /\ StartsWith(timeline[k].source, GitPrefix)

\* the date argument is absent or well formed
DateAccepted == ~args.date.given \/ StrpDate(args.date.text).ok

\* C2: whenever the date argument is absent or well formed the run completes,
\* whatever the notes file and the --add strings hold: no line or string
\* with an impossible time of day aborts it.
C2_RunCompletes ==
    pc = "main_raised" => ~DateAccepted

\* the entries of es whose time is w, in order
RECURSIVE AtTime(_, _)
AtTime(es, w) ==
    IF es = <<>> THEN <<>>
    ELSE (IF Head(es).when = w THEN <<Head(es)>> ELSE <<>>) \o AtTime(Tail(es), w)

\* notes first, then manual entries, then git, then svn
SourceRank(source) ==
    IF source = NoteSource THEN 1
    ELSE IF source = ManualSource THEN 2
    ELSE IF StartsWith(source, GitPrefix) THEN 3
    ELSE 4

\* C8: the final timeline is a permutation of the entries collected, none
\* dropped or merged, and entries of equal `when` keep the order in which
\* they were collected: notes, manual, git, svn.
C8_StablePermutation ==
    pc = "main_done" =>
        /\ Len(timeline) = Len(all_entries)
        /\ \A i \in 1..Len(all_entries) :
               AtTime(timeline, all_entries[i].when) = AtTime(all_entries, all_entries[i].when)
        /\ \A i, j \in 1..Len(timeline) :
               (i < j /\ timeline[i].when = timeline[j].when) =>
                   SourceRank(timeline[i].source) <= SourceRank(timeline[j].source)

\* a timeline that holds the same entry twice, and entries of one time from
\* a note, from git and from svn
C8_Witness ==
    /\ pc = "main_done"
    /\ \E i, j \in 1..Len(timeline) : i < j /\ timeline[i] = timeline[j]
    /\ \E i, j, k \in 1..Len(timeline) :
          /\ i < j /\ j < k
          /\ timeline[i].when = timeline[j].when /\ timeline[j].when = timeline[k].when
          /\ timeline[i].source = NoteSource
          /\ StartsWith(timeline[j].source, GitPrefix)
          /\ StartsWith(timeline[k].source, SvnPrefix)
    /\ \E i \in 1..(Len(all_entries) - 1) : all_entries[i].when > all_entries[i + 1].when

\* the paths of the list that are directories, which the collectors get,
\* hold no path twice and no path inside another of them
NoOverlap(ps) ==
    LET scanned == SelectSeq(ps, IsDir)
        abs == [i \in 1..Len(scanned) |-> AbsPath(scanned[i])]
    IN  /\ \A i, j \in 1..Len(abs) : abs[i] = abs[j] => i = j
        /\ NoneNested(abs)

\* C9: with or without discovery, the list of paths of one kind handed to
\* the collectors holds no path twice and no path nested inside another.
C9_NoRepoScannedTwice ==
    pc \in {"main_git", "main_svn"} => NoOverlap(git_paths) /\ NoOverlap(svn_paths)

====
